---- MODULE Spec2Model ----
(***************************************************************************)
(* Buffer and request lifecycle of LibcameraApp (core/libcamera_app.cpp).  *)
(*                                                                         *)
(* Threads:                                                                *)
(*   main      StartCamera, StopCamera, Wait                               *)
(*   callback  the camera thread that runs requestComplete                 *)
(*   app       any thread that drops the last reference to a               *)
(*             CompletedRequest and so runs queueRequest (the shared_ptr   *)
(*             deleter installed at line 664)                              *)
(*                                                                         *)
(* The device (libcamera::Camera) is the environment.  Camera::stop()      *)
(* cancels every queued request, delivers the cancelled completions on the *)
(* callback thread and returns only when that thread is out of the         *)
(* callback; requests complete in the order they were queued.              *)
(*                                                                         *)
(* Steps of one thread that no other thread can tell apart are one action: *)
(* new CompletedRequest with the insert into the known set (663-665), the  *)
(* push of the free request with the hand-off (667-680), the unlock in     *)
(* StopCamera with the clearing after it (408-429).                        *)
(*                                                                         *)
(* Specifications:                                                         *)
(*   Spec, SpecTwice, FairSpec, FairRecycle   the request lifecycle        *)
(*   SpecPreview   ShowPreview, previewThread, previewDoneCallback         *)
(*   SpecEncoder   LibcameraEncoder::EncodeBuffer and encodeBufferDone     *)
(*   SpecRate      the frame rate computed by requestComplete              *)
(*   SpecMake      makeRequests over unequal buffer counts                 *)
(*   SpecMmap      the plane loop of setupCapture and Mmap                 *)
(*   SpecKnown     the accesses to known_completed_requests_ and their     *)
(*                 locks                                                   *)
(*   SpecControls  the accesses to controls_ and their locks               *)
(*   FairAbort     the preview thread and the destructor's abort           *)
(* Each one moves its own variables and leaves the others as Init set them.*)
(***************************************************************************)
EXTENDS Integers, Sequences, FiniteSets, TLC

(* ----------------------------- bounds ---------------------------------- *)
\* buffers the allocator hands out per stream
NumBuffers == 2
\* streams a configuration may hold
MaxStreams == 2
\* heap addresses at which operator new may place a CompletedRequest
NumAddrs == 2
\* non-cancelled completions in one behaviour
MaxCompleted == 3
\* frames the application offers to the preview or the encoder
MaxFrames == 3
\* sensor timestamps are 0 .. MaxTimestamp
MaxTimestamp == 3
\* planes of a buffer
MaxPlanes == 3
\* a plane's length is 1 .. MaxLength
MaxLength == 2
\* file descriptors of the buffers offered to the preview
NumFds == 2
\* control lists the application hands to SetControls in one behaviour
MaxLists == 2

VARIABLES
    configuration_,            \* sequence of configured streams, primary first
    frame_buffers_,            \* stream -> queue of its allocated buffers
    requests_,                 \* vector of Request objects: each its buffer map
    free_requests_,            \* queue of indices into requests_
    known_completed_requests_, \* set of CompletedRequest addresses
    camera_started_,
    camera_stop_mutex_,        \* 0 free, Main, or the index of the recycling CR
    sequence_,
    msg_queue_,                \* queue of RequestComplete payloads (CR indices)
    completed,                 \* every CompletedRequest ever made, in creation order
    camera_queue,              \* device: requests queued, oldest first
    camera_state,              \* device: "stopped", "running", "stopping"
    main_pc, start_i,          \* main thread position, StartCamera loop index
    cb_pc, cb_request          \* callback thread position, its Request

mainVars == <<configuration_, frame_buffers_, requests_, free_requests_,
              known_completed_requests_, camera_started_, camera_stop_mutex_,
              sequence_, msg_queue_, completed, camera_queue, camera_state,
              main_pc, start_i, cb_pc, cb_request>>

\* the last frame's timestamp (requestComplete, StartCamera)
VARIABLES last_timestamp_

\* the preview path (ShowPreview, previewThread, previewDoneCallback)
VARIABLES
    frames,                      \* the CompletedRequests the application got
                                 \* from Wait, in order: descriptor of the
                                 \* buffer, what the application does with its
                                 \* reference, times it went to the renderer
    preview_item_,               \* the slot: 0 empty, else a frame
    preview_frames_dropped_,
    preview_frames_displayed_,
    preview_completed_requests_, \* descriptor -> frame
    preview_pc, item,            \* preview thread position, its local item
    rendering,                   \* renderer: frames shown and not yet done
    preview_error                \* previewDoneCallback has thrown

previewVars == <<frames, preview_item_, preview_frames_dropped_,
                 preview_frames_displayed_, preview_completed_requests_,
                 preview_pc, item, rendering, preview_error>>

\* the encoder path (LibcameraEncoder::EncodeBuffer, encodeBufferDone)
VARIABLES
    encode_buffer_queue_,        \* queue of frames, one reference each
    encoder_input,               \* encoder: frames handed in and not yet done
    encode_pc,                   \* the frame EncodeBuffer is busy with, or 0
    encode_count,                \* EncodeBuffer calls so far
    encode_done,                 \* the frames the done signals released, in order
    encode_held,                 \* the frames the application still references
    encode_error                 \* "none" or what was thrown

encoderVars == <<encode_buffer_queue_, encoder_input, encode_pc, encode_count,
                 encode_done, encode_held, encode_error>>

\* the frame rate computed in requestComplete
VARIABLES
    timestamp,                   \* timestamp of the frame completed last
    framerate,                   \* the frame rate stored for it
    prev_timestamp               \* timestamps of the frames completed since
                                 \* StartCamera before it, oldest first

rateVars == <<timestamp, framerate, prev_timestamp>>

\* the outcome of makeRequests
VARIABLES make_status

\* the mapping of one buffer in setupCapture
VARIABLES
    planes,                      \* the planes of the buffer: descriptor, length
    mmap_result,                 \* what each mmap call returns, in call order
    mapped_buffers_,             \* the spans stored for the buffer
    setup_status                 \* "none", "done", "throw"

mmapVars == <<planes, mmap_result, mapped_buffers_, setup_status>>

\* the threads around the locks, one call each at a time
VARIABLES
    recycle_pc, recycle_cr,      \* a thread in queueRequest: position, pointer
    control_mutex_,              \* holder of control_mutex_, or 0
    controls_,                   \* the pending control list, 0 if empty
    set_pc,                      \* a thread in SetControls: position
    lists_made,                  \* control lists handed to SetControls so far
    request_controls             \* the control list of each request submitted
                                 \* by queueRequest, 0 if empty

lockVars == <<recycle_pc, recycle_cr, control_mutex_, controls_, set_pc,
              lists_made, request_controls>>

\* the end of the preview thread
VARIABLES
    preview_abort_,              \* set by the destructor
    preview_item_mutex_,         \* holder of preview_item_mutex_, or "none"
    preview_joined               \* preview_thread_.join() has returned

abortVars == <<preview_abort_, preview_item_mutex_, preview_joined>>

\* what the handlers of the request lifecycle never touch
side == <<previewVars, encoderVars, rateVars, make_status, mmapVars, lockVars,
          abortVars>>

vars == <<mainVars, last_timestamp_, side>>

(* --------------------------- data helpers ------------------------------ *)
Main == 0 - 1
Addrs == 1 .. NumAddrs
EmptyMap == [s \in {} |-> <<0, 0>>]

\* the i-th buffer the allocator made for stream s
Buffer(s, i) == <<s, i>>

\* Request::addBuffer / BufferMap insertion
AddBuffer(map, stream, buffer) ==
    [s \in (DOMAIN map) \cup {stream} |-> IF s = stream THEN buffer ELSE map[s]]

\* the buffers a buffer map binds
BuffersOf(map) == {map[s] : s \in DOMAIN map}

\* A CompletedRequest is a record:
\*   sequence, buffers   the members set at line 663
\*   addr                where operator new put it
\*   st                  "payload"  referenced by requestComplete's shared_ptr
\*                       "msgq"     referenced by a message in msg_queue_
\*                       "held"     referenced by a consumer
\*                       "freed"    queueRequest has moved the buffers out and
\*                                  deleted the object (lines 442-444)
\*                       "submit"   queueRequest holds the stop mutex and a
\*                                  popped free request (line 473)
\*                       "done"     queueRequest has returned
\*   req                 the free request queueRequest popped
\*   thread              the thread that runs its queueRequest
\* and, kept for the properties only:
\*   old                 a StopCamera has returned since it was made
\*   released            when the last reference went: "no" not yet,
\*                       "stopped" camera stopped, "late" in a session after
\*                       the one that made it, "same" in its own session
\*   result              "none" until its queueRequest has returned, then
\*                       "queued" if it went to the device at line 485, else
\*                       "other" (the returns at lines 450, 456 and 471)
Alive(cr) == cr.st \in {"payload", "msgq", "held"}
LiveAddrs == {completed[k].addr : k \in {j \in DOMAIN completed : Alive(completed[j])}}

\* addresses some pointer still names: the known set and the pointers that
\* queueRequest calls hold
NamedAddrs ==
    known_completed_requests_ \cup {completed[k].addr : k \in DOMAIN completed}

\* the addresses operator new may return: any free address that something
\* still names, or a fresh one; fresh addresses are alike, so the lowest
\* stands for all of them
NewAddrs ==
    LET free == Addrs \ LiveAddrs
        fresh == free \ NamedAddrs
    IN (free \cap NamedAddrs) \cup {a \in fresh : \A b \in fresh : a <= b}

\* queueRequest has returned.  Of the record only what a later step or a
\* property reads is kept: that it was queued, with the pointer (a second
\* call may use it); every other return is "other"
Finished(cr, result) ==
    [cr EXCEPT !.st = "done", !.buffers = EmptyMap, !.req = 0, !.thread = "app",
               !.released = "no",
               !.addr = IF result = "queued" THEN @ ELSE 0,
               !.result = IF result = "queued" THEN result ELSE "other"]

(* ----------------------------- makeRequests ---------------------------- *)
RECURSIVE MakePass(_, _, _, _)
\* one pass of the for loop of makeRequests, from configuration entry i
MakePass(config, i, free, reqs) ==
    IF i > Len(config) THEN [status |-> "next", free |-> free, reqs |-> reqs]
    ELSE LET stream == config[i] IN
         IF stream = config[1] /\ free[stream] = <<>>
           THEN [status |-> "return", free |-> free, reqs |-> reqs]
         ELSE IF stream # config[1] /\ free[stream] = <<>>
           THEN [status |-> "throw", free |-> free, reqs |-> reqs]
         ELSE LET reqs1 == IF stream = config[1] THEN Append(reqs, EmptyMap) ELSE reqs
                  reqs2 == [reqs1 EXCEPT ![Len(reqs1)] = AddBuffer(@, stream, Head(free[stream]))]
              IN MakePass(config, i + 1, [free EXCEPT ![stream] = Tail(@)], reqs2)

RECURSIVE MakeLoop(_, _, _)
MakeLoop(config, free, reqs) ==
    LET pass == MakePass(config, 1, free, reqs) IN
    IF pass.status = "next" THEN MakeLoop(config, pass.free, pass.reqs)
    ELSE pass

\* a builder that stops after the first pass
makeRequestsOnePass(config, buffers, reqs) ==
    LET pass == MakePass(config, 1, buffers, reqs) IN
    [pass EXCEPT !.status = IF @ = "next" THEN "return" ELSE @]

\* lines 626-656
makeRequests(config, buffers, reqs) == MakeLoop(config, buffers, reqs)

(* ------------------------------- Init ---------------------------------- *)
\* nothing has been offered to the preview
PreviewInit ==
    /\ frames = <<>>
    /\ preview_item_ = 0
    /\ preview_frames_dropped_ = 0
    /\ preview_frames_displayed_ = 0
    /\ preview_completed_requests_ = [fd \in {} |-> 0]
    /\ preview_pc = "wait"
    /\ item = 0
    /\ rendering = <<>>
    /\ preview_error = FALSE

\* nothing has been handed to the encoder
EncoderInit ==
    /\ encode_buffer_queue_ = <<>>
    /\ encoder_input = <<>>
    /\ encode_pc = 0
    /\ encode_count = 0
    /\ encode_done = <<>>
    /\ encode_held = {}
    /\ encode_error = "none"

\* no frame has completed
\* line 675: framerate = 0.  A rate is zero or 1e9 / d, where the uint64_t d
\* is value, or 2^64 - value if wrapped
ZeroRate == [zero |-> TRUE, wrapped |-> FALSE, value |-> 0]

RateInit ==
    /\ timestamp = 0
    /\ framerate = ZeroRate
    /\ prev_timestamp = <<>>

\* no thread is in queueRequest or SetControls, no control list is pending
LockInit ==
    /\ recycle_pc = "idle"
    /\ recycle_cr = 0
    /\ control_mutex_ = 0
    /\ controls_ = 0
    /\ set_pc = "idle"
    /\ lists_made = 0
    /\ request_controls = <<>>

\* the application object is alive
AbortInit ==
    /\ preview_abort_ = FALSE
    /\ preview_item_mutex_ = "none"
    /\ preview_joined = FALSE

\* no buffer has been mapped
MmapInit ==
    /\ planes = <<>>
    /\ mmap_result = <<>>
    /\ mapped_buffers_ = <<>>
    /\ setup_status = "none"

\* the camera is stopped, nothing has been built or completed
StoppedInit ==
    /\ requests_ = <<>>
    /\ free_requests_ = <<>>
    /\ known_completed_requests_ = {}
    /\ camera_started_ = FALSE
    /\ camera_stop_mutex_ = 0
    /\ sequence_ = 0
    /\ msg_queue_ = <<>>
    /\ completed = <<>>
    /\ camera_queue = <<>>
    /\ camera_state = "stopped"
    /\ main_pc = "idle"
    /\ start_i = 0
    /\ cb_pc = "idle"
    /\ cb_request = 0
    /\ last_timestamp_ = 0

\* the state after OpenCamera, Configure* and setupCapture: the streams are
\* configured and every stream's buffers sit on frame_buffers_
Init ==
    /\ \E n \in 1 .. MaxStreams :
         /\ configuration_ = [i \in 1 .. n |-> i]
         /\ frame_buffers_ = [s \in 1 .. n |-> [i \in 1 .. NumBuffers |-> Buffer(s, i)]]
    /\ StoppedInit
    /\ PreviewInit
    /\ EncoderInit
    /\ RateInit
    /\ LockInit
    /\ AbortInit
    /\ make_status = "none"
    /\ MmapInit

(* ----------------------------- StartCamera ----------------------------- *)
\* lines 318-384: makeRequests, camera_->start, camera_started_ = true,
\* last_timestamp_ = 0, connect
StartCamera ==
    /\ main_pc = "idle"
    /\ camera_state = "stopped"
    /\ LET made == makeRequests(configuration_, frame_buffers_, requests_) IN
         /\ made.status = "return"
         /\ requests_' = made.reqs
         /\ main_pc' = IF made.reqs = <<>> THEN "idle" ELSE "start_queue"
         /\ start_i' = IF made.reqs = <<>> THEN 0 ELSE 1
    /\ camera_state' = "running"
    /\ camera_started_' = TRUE
    /\ last_timestamp_' = 0
    /\ UNCHANGED <<side, configuration_, frame_buffers_, free_requests_,
                   known_completed_requests_, camera_stop_mutex_, sequence_,
                   msg_queue_, completed, camera_queue, cb_pc, cb_request>>

\* lines 386-390: one iteration of the loop that queues the initial requests
StartCameraQueue ==
    /\ main_pc = "start_queue"
    /\ camera_queue' = Append(camera_queue, start_i)
    /\ IF start_i < Len(requests_)
         THEN start_i' = start_i + 1 /\ main_pc' = main_pc
         ELSE start_i' = 0 /\ main_pc' = "idle"
    /\ UNCHANGED <<side, last_timestamp_, configuration_, frame_buffers_,
                   requests_, free_requests_,
                   known_completed_requests_, camera_started_, camera_stop_mutex_,
                   sequence_, msg_queue_, completed, camera_state, cb_pc,
                   cb_request>>

(* ------------------------------ StopCamera ----------------------------- *)
\* msg_queue_.Clear() drops every payload; each one that was the last reference
\* runs queueRequest on the main thread, which deletes the object and returns
\* at the camera_started_ check.  Every CompletedRequest made so far is now old.
ClearedBy(queue) ==
    [k \in DOMAIN completed |->
        IF \E i \in DOMAIN queue : queue[i] = k
          THEN [Finished(completed[k], "stopped") EXCEPT !.old = TRUE]
          ELSE [completed[k] EXCEPT !.old = TRUE]]

\* a cleanup without msg_queue_.Clear()
StopCameraKeepMessages ==
    /\ known_completed_requests_' = {}
    /\ completed' = ClearedBy(<<>>)
    /\ msg_queue_' = msg_queue_
    /\ free_requests_' = <<>>
    /\ requests_' = <<>>

\* lines 412-429: disconnect, clear the known set, the message queue, the
\* free requests and the requests
StopCameraCleanup ==
    /\ known_completed_requests_' = {}
    /\ completed' = ClearedBy(msg_queue_)
    /\ msg_queue_' = <<>>
    /\ free_requests_' = <<>>
    /\ requests_' = <<>>

\* a StopCamera that does not take the stop mutex
StopCameraNoLock ==
    /\ main_pc = "idle"
    /\ IF camera_started_
         THEN /\ camera_state' = "stopping"
              /\ main_pc' = "stop_wait"
              /\ UNCHANGED <<known_completed_requests_, completed, msg_queue_,
                             free_requests_, requests_>>
         ELSE /\ camera_state' = camera_state
              /\ main_pc' = main_pc
              /\ StopCameraCleanup
    /\ UNCHANGED <<side, last_timestamp_, configuration_, frame_buffers_,
                   camera_started_,
                   camera_stop_mutex_, sequence_, camera_queue, start_i, cb_pc,
                   cb_request>>

\* lines 396-403: take the stop mutex; if started, enter camera_->stop(),
\* else unlock and clear (lines 410-429)
StopCameraLock ==
    /\ main_pc = "idle"
    /\ camera_stop_mutex_ = 0
    /\ IF camera_started_
         THEN /\ camera_stop_mutex_' = Main
              /\ camera_state' = "stopping"
              /\ main_pc' = "stop_wait"
              /\ UNCHANGED <<known_completed_requests_, completed, msg_queue_,
                             free_requests_, requests_>>
         ELSE /\ camera_stop_mutex_' = 0
              /\ camera_state' = camera_state
              /\ main_pc' = main_pc
              /\ StopCameraCleanup
    /\ UNCHANGED <<side, last_timestamp_, configuration_, frame_buffers_,
                   camera_started_, sequence_,
                   camera_queue, start_i, cb_pc, cb_request>>

\* a camera_->stop() that returns while a callback is still running
StopCameraStoppedEarly ==
    /\ main_pc = "stop_wait"
    /\ camera_queue = <<>>
    /\ camera_state' = "stopped"
    /\ camera_started_' = FALSE
    /\ camera_stop_mutex_' = 0
    /\ StopCameraCleanup
    /\ main_pc' = "idle"
    /\ UNCHANGED <<side, last_timestamp_, configuration_, frame_buffers_,
                   sequence_, camera_queue,
                   start_i, cb_request, cb_pc>>

\* lines 403-429: camera_->stop() returns, camera_started_ = false, unlock, clear
StopCameraStopped ==
    /\ main_pc = "stop_wait"
    /\ camera_queue = <<>>
    /\ cb_pc = "idle"
    /\ camera_state' = "stopped"
    /\ camera_started_' = FALSE
    /\ camera_stop_mutex_' = 0
    /\ StopCameraCleanup
    /\ main_pc' = "idle"
    /\ UNCHANGED <<side, last_timestamp_, configuration_, frame_buffers_,
                   sequence_, camera_queue,
                   start_i, cb_request, cb_pc>>

(* ---------------------------- requestComplete -------------------------- *)
\* a handler that takes a sequence number before it looks at the status
RequestCompleteCancelledCounted ==
    /\ cb_pc = "idle"
    /\ camera_queue # <<>>
    /\ camera_state = "stopping"
    /\ camera_queue' = <<>>
    /\ sequence_' = sequence_ + 1
    /\ UNCHANGED <<side, last_timestamp_, configuration_, frame_buffers_,
                   requests_, free_requests_,
                   known_completed_requests_, camera_started_, camera_stop_mutex_,
                   msg_queue_, completed, camera_state, main_pc,
                   start_i, cb_pc, cb_request>>

\* lines 660-661, once for every request that camera_->stop() cancels: each
\* call returns at the status check and changes nothing, so the run of them
\* is one step
RequestCompleteCancelled ==
    /\ cb_pc = "idle"
    /\ camera_queue # <<>>
    /\ camera_state = "stopping"
    /\ camera_queue' = <<>>
    /\ UNCHANGED <<side, last_timestamp_, configuration_, frame_buffers_,
                   requests_, free_requests_,
                   known_completed_requests_, camera_started_, camera_stop_mutex_,
                   sequence_, msg_queue_, completed, camera_state, main_pc,
                   start_i, cb_pc, cb_request>>

\* the CompletedRequest made at line 663, placed at address a
NewCompletedRequest(a, request) ==
    [sequence |-> sequence_, buffers |-> requests_[request], addr |-> a,
     st |-> "payload", req |-> 0, thread |-> "app",
     old |-> FALSE, released |-> "no", result |-> "none"]

\* a counter that is read but not advanced
NextSequenceStuck(s) == s

\* line 663: sequence_++
NextSequence(s) == s + 1

\* lines 663-665: new CompletedRequest(sequence_++, ...), wrapped in a
\* shared_ptr, and known_completed_requests_.insert(r)
RequestCompleteNew ==
    /\ cb_pc = "idle"
    /\ camera_queue # <<>>
    /\ camera_state = "running"
    /\ Len(completed) < MaxCompleted
    /\ \E a \in NewAddrs :
         /\ completed' = Append(completed, NewCompletedRequest(a, Head(camera_queue)))
         /\ known_completed_requests_' = known_completed_requests_ \cup {a}
    /\ sequence_' = NextSequence(sequence_)
    /\ cb_request' = Head(camera_queue)
    /\ camera_queue' = Tail(camera_queue)
    /\ cb_pc' = "push"
    /\ UNCHANGED <<side, last_timestamp_, configuration_, frame_buffers_,
                   requests_, free_requests_,
                   camera_started_, camera_stop_mutex_, msg_queue_, camera_state,
                   main_pc, start_i>>

\* a callback that leaves the reference with its caller
PostCallbackNoMove(cr) == cr

\* lines 76-77: the post-processor's callback moves the reference into a message
PostCallback(cr) == [cr EXCEPT !.st = "msgq"]

\* post_processor_.Process(payload): the payload goes to the callback on the
\* calling thread
Process(cr) == PostCallback(cr)

\* when the last reference goes
ReleasedAt(cr) ==
    IF camera_state = "stopped" THEN "stopped"
    ELSE IF cr.old THEN "late" ELSE "same"

\* queueRequest lines 442-444: the buffers are moved out, the object is deleted
DeleteCompletedRequest(cr, thread) ==
    [cr EXCEPT !.st = "freed", !.thread = thread, !.released = ReleasedAt(cr)]

\* the device clock of this specification: a frame is stamped with its place
\* in the order of completion, never with 0
SensorTimestamp(cr) == cr.sequence + 1

\* lines 667-681: request->reuse(), free_requests_.push(request), the
\* timestamp of the frame goes to last_timestamp_, then hand the payload on;
\* a payload still referenced only by the local shared_ptr is released when
\* requestComplete returns
RequestCompletePush ==
    /\ cb_pc = "push"
    /\ requests_' = [requests_ EXCEPT ![cb_request] = EmptyMap]
    /\ free_requests_' = Append(free_requests_, cb_request)
    /\ LET k == Len(completed)
           cr == Process(completed[k]) IN
         IF cr.st = "msgq"
           THEN /\ completed' = [completed EXCEPT ![k] = cr]
                /\ msg_queue_' = Append(msg_queue_, k)
                /\ cb_pc' = "idle"
           ELSE /\ completed' = [completed EXCEPT ![k] = DeleteCompletedRequest(cr, "callback")]
                /\ msg_queue_' = msg_queue_
                /\ cb_pc' = "recycle"
    /\ last_timestamp_' = SensorTimestamp(completed[Len(completed)])
    /\ cb_request' = 0
    /\ UNCHANGED <<side, configuration_, frame_buffers_,
                   known_completed_requests_,
                   camera_started_, camera_stop_mutex_, sequence_, camera_queue,
                   camera_state, main_pc, start_i>>

(* ------------------------------ consumers ------------------------------ *)
\* line 435: Wait() on the main thread takes the oldest message
Wait ==
    /\ main_pc = "idle"
    /\ msg_queue_ # <<>>
    /\ completed' = [completed EXCEPT ![Head(msg_queue_)].st = "held"]
    /\ msg_queue_' = Tail(msg_queue_)
    /\ UNCHANGED <<side, last_timestamp_, configuration_, frame_buffers_,
                   requests_, free_requests_,
                   known_completed_requests_, camera_started_, camera_stop_mutex_,
                   sequence_, camera_queue, camera_state, main_pc, start_i,
                   cb_pc, cb_request>>

\* the last reference is dropped: the deleter runs queueRequest, lines 442-444
Release(k) ==
    /\ completed[k].st = "held"
    /\ completed' = [completed EXCEPT ![k] = DeleteCompletedRequest(@, "app")]
    /\ UNCHANGED <<side, last_timestamp_, configuration_, frame_buffers_,
                   requests_, free_requests_,
                   known_completed_requests_, camera_started_, camera_stop_mutex_,
                   sequence_, msg_queue_, camera_queue, camera_state, main_pc,
                   start_i, cb_pc, cb_request>>

(* ------------------------------ queueRequest --------------------------- *)
\* a lock_guard whose scope ends with the checks
StopLockChecksOnly(k) == 0

\* line 448: the lock_guard on camera_stop_mutex_ lives to the end of queueRequest
StopLock(k) == k

\* the thread that ran queueRequest for k carries on
Returned(k) == IF completed[k].thread = "callback" THEN "idle" ELSE cb_pc

\* line 454: known_completed_requests_.find(completed_request)
Known(cr) == cr.addr \in known_completed_requests_

\* a queueRequest that pops a free request before it erases the pointer
QueueRequestCheckKeepsKnown(k) ==
    /\ completed[k].st = "freed"
    /\ camera_stop_mutex_ = 0
    /\ IF ~camera_started_ \/ ~Known(completed[k])
         THEN /\ completed' = [completed EXCEPT ![k] =
                      Finished(@, IF camera_started_ THEN "unknown" ELSE "stopped")]
              /\ cb_pc' = Returned(k)
              /\ UNCHANGED <<known_completed_requests_, free_requests_,
                             camera_stop_mutex_>>
         ELSE /\ known_completed_requests_' =
                   IF free_requests_ = <<>> THEN known_completed_requests_
                   ELSE known_completed_requests_ \ {completed[k].addr}
              /\ IF free_requests_ = <<>>
                   THEN /\ completed' = [completed EXCEPT ![k] = Finished(@, "dropped")]
                        /\ cb_pc' = Returned(k)
                        /\ UNCHANGED <<free_requests_, camera_stop_mutex_>>
                   ELSE /\ completed' = [completed EXCEPT ![k].st = "submit",
                                                          ![k].req = Head(free_requests_)]
                        /\ free_requests_' = Tail(free_requests_)
                        /\ camera_stop_mutex_' = StopLock(k)
                        /\ cb_pc' = cb_pc
    /\ UNCHANGED <<side, last_timestamp_, configuration_, frame_buffers_,
                   requests_, camera_started_,
                   sequence_, msg_queue_, camera_queue, camera_state, main_pc,
                   start_i, cb_request>>

\* lines 448-472: lock the stop mutex, check camera_started_, look the address
\* up and erase it, pop a free request
QueueRequestCheck(k) ==
    /\ completed[k].st = "freed"
    /\ camera_stop_mutex_ = 0
    /\ IF ~camera_started_ \/ ~Known(completed[k])
         THEN /\ completed' = [completed EXCEPT ![k] =
                      Finished(@, IF camera_started_ THEN "unknown" ELSE "stopped")]
              /\ cb_pc' = Returned(k)
              /\ UNCHANGED <<known_completed_requests_, free_requests_,
                             camera_stop_mutex_>>
         ELSE /\ known_completed_requests_' =
                   known_completed_requests_ \ {completed[k].addr}
              /\ IF free_requests_ = <<>>
                   THEN /\ completed' = [completed EXCEPT ![k] = Finished(@, "dropped")]
                        /\ cb_pc' = Returned(k)
                        /\ UNCHANGED <<free_requests_, camera_stop_mutex_>>
                   ELSE /\ completed' = [completed EXCEPT ![k].st = "submit",
                                                          ![k].req = Head(free_requests_)]
                        /\ free_requests_' = Tail(free_requests_)
                        /\ camera_stop_mutex_' = StopLock(k)
                        /\ cb_pc' = cb_pc
    /\ UNCHANGED <<side, last_timestamp_, configuration_, frame_buffers_,
                   requests_, camera_started_,
                   sequence_, msg_queue_, camera_queue, camera_state, main_pc,
                   start_i, cb_request>>

RECURSIVE AddAll(_, _, _)
AddAll(request, buffers, streams) ==
    IF streams = {} THEN request
    ELSE LET s == CHOOSE x \in streams : \A y \in streams : x <= y IN
         AddAll(AddBuffer(request, s, buffers[s]), buffers, streams \ {s})

\* lines 474-478: request->addBuffer(p.first, p.second) for every binding
Rebind(request, buffers) == AddAll(request, buffers, DOMAIN buffers)

\* lines 474-487: rebind the buffers, queue the request, unlock
QueueRequestSubmit(k) ==
    /\ completed[k].st = "submit"
    /\ requests_' = [requests_ EXCEPT ![completed[k].req] = Rebind(@, completed[k].buffers)]
    /\ camera_queue' = Append(camera_queue, completed[k].req)
    /\ camera_stop_mutex_' = 0
    /\ completed' = [completed EXCEPT ![k] = Finished(@, "queued")]
    /\ cb_pc' = Returned(k)
    /\ UNCHANGED <<side, last_timestamp_, configuration_, frame_buffers_,
                   free_requests_,
                   known_completed_requests_, camera_started_, sequence_,
                   msg_queue_, camera_state, main_pc, start_i, cb_request>>

(* ------------------------ a second queueRequest ------------------------ *)
\* what line 442 can read out of an object that has been deleted: the map it
\* left behind, or the map of whatever lives at the address now
StaleBuffers(k) ==
    {EmptyMap} \cup {completed[j].buffers :
                       j \in {i \in DOMAIN completed : completed[i].addr = completed[k].addr}}

\* queueRequest called again with the pointer of a CompletedRequest that has
\* been recycled, all of it in one step (lines 442-487)
QueueRequestAgain(k) ==
    /\ completed[k].st = "done"
    /\ completed[k].result = "queued"
    /\ camera_stop_mutex_ = 0
    /\ IF ~camera_started_ \/ ~Known(completed[k])
         THEN UNCHANGED <<known_completed_requests_, free_requests_, requests_,
                          camera_queue>>
         ELSE /\ known_completed_requests_' =
                   known_completed_requests_ \ {completed[k].addr}
              /\ IF free_requests_ = <<>>
                   THEN UNCHANGED <<free_requests_, requests_, camera_queue>>
                   ELSE /\ free_requests_' = Tail(free_requests_)
                        /\ \E buffers \in StaleBuffers(k) :
                             requests_' = [requests_ EXCEPT ![Head(free_requests_)] =
                                              Rebind(@, buffers)]
                        /\ camera_queue' = Append(camera_queue, Head(free_requests_))
    /\ UNCHANGED <<side, last_timestamp_, configuration_, frame_buffers_,
                   camera_started_,
                   camera_stop_mutex_, sequence_, msg_queue_, completed,
                   camera_state, main_pc, start_i, cb_pc, cb_request>>

(* ------------------------------- Next ---------------------------------- *)
CRs == 1 .. MaxCompleted

ReleaseLast == \E k \in CRs : k <= Len(completed) /\ Release(k)

QueueRequestLocked == \E k \in CRs : k <= Len(completed) /\ QueueRequestCheck(k)

QueueRequestQueue == \E k \in CRs : k <= Len(completed) /\ QueueRequestSubmit(k)

Next ==
    \/ StartCamera
    \/ StartCameraQueue
    \/ StopCameraLock
    \/ StopCameraStopped
    \/ RequestCompleteCancelled
    \/ RequestCompleteNew
    \/ RequestCompletePush
    \/ Wait
    \/ ReleaseLast
    \/ QueueRequestLocked
    \/ QueueRequestQueue

Spec == Init /\ [][Next]_vars

\* the program with a caller that may run queueRequest a second time
RecycleAgain == \E k \in CRs : k <= Len(completed) /\ QueueRequestAgain(k)

NextTwice == Next \/ RecycleAgain

SpecTwice == Init /\ [][NextTwice]_vars

\* the device and its callback thread keep going: a callback that has begun
\* finishes, the cancelled completions are delivered, camera_->stop() returns
\* once they are.  What the application does (StartCamera, StopCamera, Wait,
\* dropping a reference) is up to it.
FairSpec ==
    /\ Spec
    /\ WF_vars(StopCameraStopped)
    /\ WF_vars(RequestCompleteCancelled)
    /\ WF_vars(RequestCompletePush)

\* fair scheduling of every thread the program owns: besides FairSpec, the
\* device completes the requests it holds and a queueRequest that has been
\* entered runs to its end
FairRecycle ==
    /\ FairSpec
    /\ WF_vars(RequestCompleteNew)
    /\ WF_vars(QueueRequestLocked)
    /\ WF_vars(QueueRequestQueue)

(* ============================ the preview ============================== *)
(* The application takes CompletedRequests from Wait, offers them to       *)
(* ShowPreview and drops its own reference; the preview thread takes the   *)
(* slot's item, stores it under the descriptor of its buffer and hands it  *)
(* to the renderer; the renderer signals each shown frame done, oldest     *)
(* first.  A frame is its index in frames.  Two frames can carry the same  *)
(* buffer, hence the same descriptor: StartCamera binds every buffer       *)
(* again, also one whose CompletedRequest is still referenced.             *)
Fds == 1 .. NumFds
FrameIds == 1 .. MaxFrames

\* part_000 lines 94-110: Wait returns a RequestComplete message whose buffer
\* has descriptor fd; the message of the iteration before is gone
PreviewWait(fd) ==
    /\ Len(frames) < MaxFrames
    /\ \A f \in DOMAIN frames : frames[f].app = "gone"
    /\ frames' = Append(frames, [fd |-> fd, app |-> "held", shows |-> 0])
    /\ UNCHANGED <<preview_item_, preview_frames_dropped_, preview_frames_displayed_,
                   preview_completed_requests_, preview_pc, item, rendering,
                   preview_error>>

\* a slot that always takes the newest item
ShowPreviewLatest(slot, f) == f

\* lines 551-552: the item goes into the slot if the slot is empty
ShowPreviewSlot(slot, f) == IF slot = 0 THEN f ELSE slot

\* lines 548-556: ShowPreview(completed_request, stream)
ShowPreview(f) ==
    /\ frames[f].app = "held"
    /\ preview_item_' = ShowPreviewSlot(preview_item_, f)
    /\ preview_frames_dropped_' =
          IF preview_item_ = 0 THEN preview_frames_dropped_
          ELSE preview_frames_dropped_ + 1
    /\ frames' = [frames EXCEPT ![f].app = "shown"]
    /\ UNCHANGED <<preview_frames_displayed_, preview_completed_requests_,
                   preview_pc, item, rendering, preview_error>>

\* the application drops its reference to a frame it has offered
PreviewRelease(f) ==
    /\ frames[f].app = "shown"
    /\ frames' = [frames EXCEPT ![f].app = "gone"]
    /\ UNCHANGED <<preview_item_, preview_frames_dropped_, preview_frames_displayed_,
                   preview_completed_requests_, preview_pc, item, rendering,
                   preview_error>>

\* PreviewItem's move assignment leaves the source without a stream
MovedFrom(slot) == 0

\* lines 696-706: the preview thread moves the slot's item to its local item
PreviewThreadTake ==
    /\ preview_pc = "wait"
    /\ preview_item_ # 0
    /\ item' = preview_item_
    /\ preview_item_' = MovedFrom(preview_item_)
    /\ preview_pc' = "store"
    /\ UNCHANGED <<frames, preview_frames_dropped_, preview_frames_displayed_,
                   preview_completed_requests_, rendering, preview_error>>

\* std::map::operator[] assignment: the entry under fd is made or overwritten
MapAssign(map, fd, f) ==
    [d \in (DOMAIN map) \cup {fd} |-> IF d = fd THEN f ELSE map[d]]

\* std::map::erase
MapErase(map, fd) == [d \in (DOMAIN map) \ {fd} |-> map[d]]

\* lines 721-726: the reference moves into preview_completed_requests_[fd]
PreviewThreadStore ==
    /\ preview_pc = "store"
    /\ preview_completed_requests_' =
          MapAssign(preview_completed_requests_, frames[item].fd, item)
    /\ preview_pc' = "show"
    /\ UNCHANGED <<frames, preview_item_, preview_frames_dropped_,
                   preview_frames_displayed_, item, rendering, preview_error>>

\* lines 727-739: preview_frames_displayed_++, preview_->Show(fd, ...)
PreviewThreadShow ==
    /\ preview_pc = "show"
    /\ preview_frames_displayed_' = preview_frames_displayed_ + 1
    /\ rendering' = Append(rendering, [fd |-> frames[item].fd, frame |-> item])
    /\ frames' = [frames EXCEPT ![item].shows = @ + 1]
    /\ item' = 0
    /\ preview_pc' = "wait"
    /\ UNCHANGED <<preview_item_, preview_frames_dropped_,
                   preview_completed_requests_, preview_error>>

\* lines 683-690: the renderer is finished with the frame it was shown first
previewDoneCallback ==
    /\ rendering # <<>>
    /\ ~preview_error
    /\ LET fd == Head(rendering).fd IN
         IF fd \in DOMAIN preview_completed_requests_
           THEN /\ preview_completed_requests_' = MapErase(preview_completed_requests_, fd)
                /\ preview_error' = preview_error
           ELSE /\ preview_error' = TRUE
                /\ preview_completed_requests_' = preview_completed_requests_
    /\ rendering' = Tail(rendering)
    /\ UNCHANGED <<frames, preview_item_, preview_frames_dropped_,
                   preview_frames_displayed_, preview_pc, item>>

PreviewWaitAny == \E fd \in Fds : PreviewWait(fd)

ShowPreviewAny == \E f \in FrameIds : f <= Len(frames) /\ ShowPreview(f)

PreviewReleaseAny == \E f \in FrameIds : f <= Len(frames) /\ PreviewRelease(f)

notPreview == <<mainVars, last_timestamp_, encoderVars, rateVars, make_status, mmapVars,
                lockVars, abortVars>>

NextPreview ==
    \/ PreviewWaitAny /\ UNCHANGED notPreview
    \/ ShowPreviewAny /\ UNCHANGED notPreview
    \/ PreviewReleaseAny /\ UNCHANGED notPreview
    \/ PreviewThreadTake /\ UNCHANGED notPreview
    \/ PreviewThreadStore /\ UNCHANGED notPreview
    \/ PreviewThreadShow /\ UNCHANGED notPreview
    \/ previewDoneCallback /\ UNCHANGED notPreview

SpecPreview == Init /\ [][NextPreview]_vars

\* who references frame f
HeldByApp(f) == frames[f].app \in {"held", "shown"}
HeldBySlot(f) == preview_item_ = f
HeldByThread(f) == item = f /\ preview_pc = "store"
HeldByMap(f) ==
    \E fd \in DOMAIN preview_completed_requests_ : preview_completed_requests_[fd] = f

\* the last reference is gone: the deleter has run queueRequest
Recycled(f) == ~(HeldByApp(f) \/ HeldBySlot(f) \/ HeldByThread(f) \/ HeldByMap(f))

(* ============================ the encoder ============================== *)
(* The application passes each CompletedRequest it got from Wait to        *)
(* EncodeBuffer and drops its own reference afterwards; the encoder calls  *)
(* encodeBufferDone once for every input, in the order of the inputs (the  *)
(* code relies on it: "we're just assuming everything is done in order").  *)
(* A frame is the number of its EncodeBuffer call.                         *)

\* part_000 lines 171-185: EncodeBuffer up to the push of the new reference;
\* with no buffer for the stream nothing is pushed and the call throws
EncodeBufferPush(has_buffer) ==
    /\ encode_error = "none"
    /\ encode_pc = 0
    /\ encode_count < MaxFrames
    /\ encode_count' = encode_count + 1
    /\ encode_held' = encode_held \cup {encode_count + 1}
    /\ IF has_buffer
         THEN /\ encode_buffer_queue_' = Append(encode_buffer_queue_, encode_count + 1)
              /\ encode_pc' = encode_count + 1
              /\ encode_error' = encode_error
         ELSE /\ encode_error' = "no buffer to encode"
              /\ UNCHANGED <<encode_buffer_queue_, encode_pc>>
    /\ UNCHANGED <<encoder_input, encode_done>>

\* part_000 line 186: encoder_->EncodeBuffer(fd, size, mem, ...)
EncodeBufferSubmit ==
    /\ encode_error = "none"
    /\ encode_pc # 0
    /\ encoder_input' = Append(encoder_input, encode_pc)
    /\ encode_pc' = 0
    /\ UNCHANGED <<encode_buffer_queue_, encode_count, encode_done, encode_held,
                   encode_error>>

\* the application's CompletedRequestPtr goes out of scope
EncodeRelease(f) ==
    /\ encode_error = "none"
    /\ f \in encode_held
    /\ encode_pc # f
    /\ encode_held' = encode_held \ {f}
    /\ UNCHANGED <<encode_buffer_queue_, encoder_input, encode_pc, encode_count,
                   encode_done, encode_error>>

\* a queue that gives up its newest element
PopBack(queue) == SubSeq(queue, 1, Len(queue) - 1)

\* part_000 line 207: std::queue::pop
Pop(queue) == Tail(queue)

\* part_000 lines 196-209: encodeBufferDone(nullptr)
encodeBufferDone ==
    /\ encode_error = "none"
    /\ IF encode_buffer_queue_ = <<>>
         THEN /\ encode_error' = "no buffer available to return"
              /\ UNCHANGED <<encode_buffer_queue_, encode_done>>
         ELSE /\ encode_done' =
                    Append(encode_done,
                           CHOOSE f \in FrameIds :
                               /\ \E i \in DOMAIN encode_buffer_queue_ :
                                      encode_buffer_queue_[i] = f
                               /\ \A i \in DOMAIN Pop(encode_buffer_queue_) :
                                      Pop(encode_buffer_queue_)[i] # f)
              /\ encode_buffer_queue_' = Pop(encode_buffer_queue_)
              /\ encode_error' = encode_error

\* the encoder is finished with its oldest input
EncoderInputDone ==
    /\ encoder_input # <<>>
    /\ encoder_input' = Tail(encoder_input)
    /\ encodeBufferDone
    /\ UNCHANGED <<encode_pc, encode_count, encode_held>>

\* the encoder signals done although it holds no input and none is on its way
EncoderSpuriousDone ==
    /\ encoder_input = <<>>
    /\ encode_pc = 0
    /\ encodeBufferDone
    /\ UNCHANGED <<encoder_input, encode_pc, encode_count, encode_held>>

EncodeBufferAny == \E has_buffer \in BOOLEAN : EncodeBufferPush(has_buffer)

EncodeReleaseAny == \E f \in FrameIds : EncodeRelease(f)

notEncoder == <<mainVars, last_timestamp_, previewVars, rateVars, make_status, mmapVars,
                lockVars, abortVars>>

NextEncoder ==
    \/ EncodeBufferAny /\ UNCHANGED notEncoder
    \/ EncodeBufferSubmit /\ UNCHANGED notEncoder
    \/ EncodeReleaseAny /\ UNCHANGED notEncoder
    \/ EncoderInputDone /\ UNCHANGED notEncoder
    \/ EncoderSpuriousDone /\ UNCHANGED notEncoder

SpecEncoder == Init /\ [][NextEncoder]_vars

\* the frames of a sequence
Range(seq) == {seq[i] : i \in DOMAIN seq}

\* no reference to frame f is left: its deleter has run queueRequest
EncodeRecycled(f) ==
    /\ f <= encode_count
    /\ f \notin encode_held
    /\ f \notin Range(encode_buffer_queue_)

(* =========================== the frame rate ============================ *)
(* requestComplete with the timestamp of the completed buffer as input;    *)
(* the main specification has a clock that only goes forward, here every   *)
(* timestamp the sensor metadata can carry is tried.                       *)
Timestamps == 0 .. MaxTimestamp

\* line 677: timestamp - last_timestamp_ in uint64_t: below zero it wraps to
\* 2^64 - (last_timestamp_ - timestamp)
UnsignedDifference(a, b) ==
    IF a >= b THEN [wrapped |-> FALSE, value |-> a - b]
    ELSE [wrapped |-> TRUE, value |-> b - a]

\* line 677: 1e9 / d is not zero for any d in 1 .. 2^64 - 1
Rate(d) == [zero |-> FALSE, wrapped |-> d.wrapped, value |-> d.value]

\* lines 674-677
Framerate(last, ts) ==
    IF last = 0 \/ last = ts THEN ZeroRate
    ELSE Rate(UnsignedDifference(ts, last))

\* line 382: StartCamera sets last_timestamp_ = 0
RateStartCamera ==
    /\ prev_timestamp # <<>>
    /\ last_timestamp_' = 0
    /\ prev_timestamp' = <<>>
    /\ UNCHANGED <<timestamp, framerate>>

\* lines 672-678 of requestComplete for a buffer with timestamp ts
RateRequestComplete(ts) ==
    /\ Len(prev_timestamp) < MaxFrames
    /\ timestamp' = ts
    /\ framerate' = Framerate(last_timestamp_, ts)
    /\ last_timestamp_' = ts
    /\ prev_timestamp' = Append(prev_timestamp, ts)

RateRequestCompleteAny == \E ts \in Timestamps : RateRequestComplete(ts)

notRate == <<mainVars, previewVars, encoderVars, make_status, mmapVars, lockVars,
             abortVars>>

NextRate ==
    \/ RateStartCamera /\ UNCHANGED notRate
    \/ RateRequestCompleteAny /\ UNCHANGED notRate

SpecRate == Init /\ [][NextRate]_vars

(* ========================== request building =========================== *)
(* makeRequests as a function of what setupCapture left: the allocator     *)
(* makes bufferCount buffers per stream, and the count is set per stream,  *)
(* so here the streams' counts are drawn independently.                    *)
InitMake ==
    /\ \E n \in 1 .. MaxStreams + 1 :
         /\ configuration_ = [i \in 1 .. n |-> i]
         /\ \E count \in [1 .. n -> 0 .. NumBuffers + 1] :
              frame_buffers_ = [s \in 1 .. n |-> [i \in 1 .. count[s] |-> Buffer(s, i)]]
    /\ StoppedInit
    /\ PreviewInit
    /\ EncoderInit
    /\ RateInit
    /\ LockInit
    /\ AbortInit
    /\ make_status = "none"
    /\ MmapInit

\* line 321: StartCamera calls makeRequests, which returns or throws
MakeRequestsCall ==
    /\ make_status = "none"
    /\ LET made == makeRequests(configuration_, frame_buffers_, requests_) IN
         /\ requests_' = made.reqs
         /\ make_status' = made.status
    /\ UNCHANGED <<configuration_, frame_buffers_, free_requests_,
                   known_completed_requests_, camera_started_, camera_stop_mutex_,
                   sequence_, msg_queue_, completed, camera_queue, camera_state,
                   main_pc, start_i, cb_pc, cb_request, last_timestamp_,
                   previewVars, encoderVars, rateVars, mmapVars, lockVars,
                   abortVars>>

NextMake == MakeRequestsCall

SpecMake == InitMake /\ [][NextMake]_vars

\* the numbers of buffers the streams carry
BufferCounts == {Len(frame_buffers_[s]) : s \in DOMAIN frame_buffers_}

\* the requests that bind buffer b
RequestsBinding(b) ==
    {r \in DOMAIN requests_ : \E s \in DOMAIN requests_[r] : requests_[r][s] = b}

(* ============================ buffer mapping =========================== *)
(* The plane loop of setupCapture for one buffer: buffer_size is declared  *)
(* inside the loop over the buffers, so every buffer is mapped on its own. *)
(* The planes of the buffer and the outcome of every mmap call are inputs. *)
(* A span is [memory, size]; memory names the descriptor whose memory the  *)
(* mapping shows, or is MAP_FAILED.                                        *)
TheBuffer == Buffer(1, 1)

\* MAP_FAILED is (void *) -1
MAP_FAILED == 0 - 1

Planes == [fd : Fds, length : 1 .. MaxLength]

InitMmap ==
    /\ \E n \in 0 .. MaxPlanes :
         /\ planes \in [1 .. n -> Planes]
         /\ mmap_result \in [1 .. n -> BOOLEAN]
    /\ mapped_buffers_ = <<>>
    /\ setup_status = "none"
    /\ configuration_ = <<1>>
    /\ frame_buffers_ = <<<<>>>>
    /\ StoppedInit
    /\ PreviewInit
    /\ EncoderInit
    /\ RateInit
    /\ LockInit
    /\ AbortInit
    /\ make_status = "none"

\* line 609: mmap(NULL, buffer_size, ..., fd, 0), the call succeeding or not
mmap(ok, fd) == IF ok THEN fd ELSE MAP_FAILED

\* a loop that maps every plane on its own
EveryPlane(pl, i) == TRUE

\* line 607: the plane is the last one or the next plane has another fd
LastOfRun(pl, i) == i = Len(pl) \/ pl[i].fd # pl[i + 1].fd

RECURSIVE MapPlanes(_, _, _, _, _)
\* lines 603-616: the loop over the planes from plane i, with buffer_size
\* accumulated so far, the spans pushed so far and the mmap calls made
MapPlanes(pl, i, buffer_size, spans, results) ==
    IF i > Len(pl) THEN spans
    ELSE LET size == buffer_size + pl[i].length IN
         IF LastOfRun(pl, i)
           THEN MapPlanes(pl, i + 1, 0,
                          Append(spans,
                                 [memory |-> mmap(results[Len(spans) + 1], pl[i].fd),
                                  size |-> size]),
                          results)
           ELSE MapPlanes(pl, i + 1, size, spans, results)

\* lines 599-617 for one buffer: the entry of mapped_buffers_ is made by the
\* first push_back, then the buffer goes to frame_buffers_
SetupCaptureBuffer ==
    /\ setup_status = "none"
    /\ LET spans == MapPlanes(planes, 1, 0, <<>>, mmap_result) IN
         mapped_buffers_' = IF spans = <<>> THEN mapped_buffers_
                            ELSE [b \in {TheBuffer} |-> spans]
    /\ frame_buffers_' = [frame_buffers_ EXCEPT ![1] = Append(@, TheBuffer)]
    /\ setup_status' = "done"
    /\ UNCHANGED <<planes, mmap_result, configuration_, requests_, free_requests_,
                   known_completed_requests_, camera_started_, camera_stop_mutex_,
                   sequence_, msg_queue_, completed, camera_queue, camera_state,
                   main_pc, start_i, cb_pc, cb_request, last_timestamp_,
                   previewVars, encoderVars, rateVars, make_status, lockVars,
                   abortVars>>

NextMmap == SetupCaptureBuffer

SpecMmap == InitMmap /\ [][NextMmap]_vars

\* lines 540-546: Mmap(buffer)
Mmap(buffer) ==
    IF buffer \in DOMAIN mapped_buffers_ THEN mapped_buffers_[buffer] ELSE <<>>

\* the last planes of the maximal runs of adjacent planes with one fd
RunEnds == {i \in DOMAIN planes : i = Len(planes) \/ planes[i].fd # planes[i + 1].fd}

\* the last plane of the k-th run
RunEnd(k) == CHOOSE e \in RunEnds : Cardinality({x \in RunEnds : x <= e}) = k

\* the first plane of the k-th run
RunStart(k) == IF k = 1 THEN 1 ELSE RunEnd(k - 1) + 1

RECURSIVE TotalLength(_, _)
\* the sum of the lengths of planes from .. to
TotalLength(from, to) ==
    IF from > to THEN 0 ELSE planes[from].length + TotalLength(from + 1, to)

(* ====================== the known set and its locks ==================== *)
(* The three accesses to known_completed_requests_ with the locks the code *)
(* holds around them, each access in two steps (it begins, it ends) so     *)
(* that a state shows who is inside one.  The callback thread runs         *)
(* requestComplete while the device runs, another thread runs queueRequest *)
(* with the pointer of a CompletedRequest, the main thread runs            *)
(* StartCamera and StopCamera.                                             *)
notKnown == <<configuration_, frame_buffers_, requests_, free_requests_, sequence_,
              msg_queue_, completed, camera_queue, start_i, cb_request,
              last_timestamp_, previewVars, encoderVars, rateVars, make_status,
              mmapVars, control_mutex_, controls_, set_pc, lists_made,
              request_controls, abortVars>>

\* lines 378-384: the device is started, requestComplete is connected
KnownStartCamera ==
    /\ main_pc = "idle"
    /\ camera_state = "stopped"
    /\ camera_state' = "running"
    /\ camera_started_' = TRUE
    /\ UNCHANGED <<main_pc, cb_pc, camera_stop_mutex_, known_completed_requests_,
                   recycle_pc, recycle_cr>>

\* line 665: requestComplete enters known_completed_requests_.insert(r); it
\* holds no lock there
KnownInsertBegin ==
    /\ cb_pc = "idle"
    /\ camera_state = "running"
    /\ cb_pc' = "insert"
    /\ UNCHANGED <<main_pc, camera_stop_mutex_, camera_started_, camera_state,
                   known_completed_requests_, recycle_pc, recycle_cr>>

\* line 665: the insert is done, the callback goes on and returns
KnownInsertEnd(a) ==
    /\ cb_pc = "insert"
    /\ known_completed_requests_' = known_completed_requests_ \cup {a}
    /\ cb_pc' = "idle"
    /\ UNCHANGED <<main_pc, camera_stop_mutex_, camera_started_, camera_state,
                   recycle_pc, recycle_cr>>

\* line 448: queueRequest, called with pointer a, takes camera_stop_mutex_
KnownRecycleLock(a) ==
    /\ recycle_pc = "idle"
    /\ camera_stop_mutex_ = 0
    /\ camera_stop_mutex_' = a
    /\ recycle_pc' = "locked"
    /\ recycle_cr' = a
    /\ UNCHANGED <<main_pc, cb_pc, camera_started_, camera_state,
                   known_completed_requests_>>

\* lines 449-454: it returns if the camera is not started, else it enters
\* known_completed_requests_.find
KnownFindBegin ==
    /\ recycle_pc = "locked"
    /\ IF camera_started_
         THEN /\ recycle_pc' = "find"
              /\ UNCHANGED <<camera_stop_mutex_, recycle_cr>>
         ELSE /\ recycle_pc' = "idle"
              /\ camera_stop_mutex_' = 0
              /\ recycle_cr' = 0
    /\ UNCHANGED <<main_pc, cb_pc, camera_started_, camera_state,
                   known_completed_requests_>>

\* lines 454-457: find and erase are done (or the pointer was not found and
\* queueRequest returns)
KnownFindEnd ==
    /\ recycle_pc = "find"
    /\ known_completed_requests_' = known_completed_requests_ \ {recycle_cr}
    /\ IF recycle_cr \in known_completed_requests_
         THEN /\ recycle_pc' = "queue"
              /\ UNCHANGED <<camera_stop_mutex_, recycle_cr>>
         ELSE /\ recycle_pc' = "idle"
              /\ camera_stop_mutex_' = 0
              /\ recycle_cr' = 0
    /\ UNCHANGED <<main_pc, cb_pc, camera_started_, camera_state>>

\* lines 459-487: the rest of queueRequest, then the lock_guard releases
\* camera_stop_mutex_
KnownRecycleUnlock ==
    /\ recycle_pc = "queue"
    /\ camera_stop_mutex_' = 0
    /\ recycle_pc' = "idle"
    /\ recycle_cr' = 0
    /\ UNCHANGED <<main_pc, cb_pc, camera_started_, camera_state,
                   known_completed_requests_>>

\* lines 400-403: StopCamera takes camera_stop_mutex_; started, it calls
\* camera_->stop(), else it unlocks and goes on to line 417
KnownStopLock ==
    /\ main_pc = "idle"
    /\ camera_stop_mutex_ = 0
    /\ IF camera_started_
         THEN /\ camera_stop_mutex_' = Main
              /\ camera_state' = "stopping"
              /\ main_pc' = "stop_wait"
         ELSE /\ main_pc' = "clear"
              /\ UNCHANGED <<camera_stop_mutex_, camera_state>>
    /\ UNCHANGED <<cb_pc, camera_started_, known_completed_requests_, recycle_pc,
                   recycle_cr>>

\* lines 403-417: camera_->stop() returns once the callback thread is out of
\* requestComplete; camera_started_ = false, unlock, disconnect, and
\* StopCamera enters known_completed_requests_.clear() without a lock
KnownStopUnlock ==
    /\ main_pc = "stop_wait"
    /\ cb_pc = "idle"
    /\ camera_state' = "stopped"
    /\ camera_started_' = FALSE
    /\ camera_stop_mutex_' = 0
    /\ main_pc' = "clear"
    /\ UNCHANGED <<cb_pc, known_completed_requests_, recycle_pc, recycle_cr>>

\* line 417: the clear is done; the rest of StopCamera
KnownClearEnd ==
    /\ main_pc = "clear"
    /\ known_completed_requests_' = {}
    /\ main_pc' = "idle"
    /\ UNCHANGED <<cb_pc, camera_stop_mutex_, camera_started_, camera_state,
                   recycle_pc, recycle_cr>>

KnownInsertEndAny == \E a \in Addrs : KnownInsertEnd(a)

KnownRecycleLockAny == \E a \in Addrs : KnownRecycleLock(a)

NextKnown ==
    \/ KnownStartCamera /\ UNCHANGED notKnown
    \/ KnownInsertBegin /\ UNCHANGED notKnown
    \/ KnownInsertEndAny /\ UNCHANGED notKnown
    \/ KnownRecycleLockAny /\ UNCHANGED notKnown
    \/ KnownFindBegin /\ UNCHANGED notKnown
    \/ KnownFindEnd /\ UNCHANGED notKnown
    \/ KnownRecycleUnlock /\ UNCHANGED notKnown
    \/ KnownStopLock /\ UNCHANGED notKnown
    \/ KnownStopUnlock /\ UNCHANGED notKnown
    \/ KnownClearEnd /\ UNCHANGED notKnown

SpecKnown == Init /\ [][NextKnown]_vars

\* the threads inside an access to known_completed_requests_
InsideKnown ==
    {t \in {"callback", "recycle", "main"} :
        \/ t = "callback" /\ cb_pc = "insert"
        \/ t = "recycle" /\ recycle_pc = "find"
        \/ t = "main" /\ main_pc = "clear"}

(* ==================== the pending controls and their locks ============ *)
(* The four accesses to controls_ with the locks the code holds around     *)
(* them.  The main thread calls StartCamera, StopCamera and SetControls    *)
(* one after the other; another thread runs queueRequest.  A control list  *)
(* is the number of the SetControls call that brought it, 0 is the empty   *)
(* list a moved-from or cleared ControlList is.                            *)
notControls == <<configuration_, frame_buffers_, requests_, free_requests_,
                 sequence_, msg_queue_, completed, camera_queue, start_i,
                 cb_request, cb_pc, camera_state, known_completed_requests_,
                 last_timestamp_, previewVars, encoderVars, rateVars,
                 make_status, mmapVars, abortVars>>

\* line 560: SetControls takes control_mutex_
ControlsSetLock ==
    /\ main_pc = "idle"
    /\ set_pc = "idle"
    /\ lists_made < MaxLists
    /\ control_mutex_ = 0
    /\ control_mutex_' = Main
    /\ set_pc' = "store"
    /\ UNCHANGED <<main_pc, camera_started_, camera_stop_mutex_, recycle_pc,
                   recycle_cr, controls_, lists_made, request_controls>>

\* lines 561-562: controls_ = std::move(controls), the lock_guard unlocks
ControlsSetStore ==
    /\ set_pc = "store"
    /\ controls_' = lists_made + 1
    /\ lists_made' = lists_made + 1
    /\ control_mutex_' = 0
    /\ set_pc' = "idle"
    /\ UNCHANGED <<main_pc, camera_started_, camera_stop_mutex_, recycle_pc,
                   recycle_cr, request_controls>>

\* lines 318-325: StartCamera makes the requests and begins to read and
\* set controls_ (325-374); it takes no lock
ControlsStartBegin ==
    /\ main_pc = "idle"
    /\ set_pc = "idle"
    /\ ~camera_started_
    /\ main_pc' = "start_controls"
    /\ UNCHANGED <<camera_started_, camera_stop_mutex_, recycle_pc, recycle_cr,
                   control_mutex_, controls_, set_pc, lists_made,
                   request_controls>>

\* lines 378-390: camera_->start(&controls_), controls_.clear(),
\* camera_started_ = true and the rest of StartCamera
ControlsStartEnd ==
    /\ main_pc = "start_controls"
    /\ controls_' = 0
    /\ camera_started_' = TRUE
    /\ main_pc' = "idle"
    /\ UNCHANGED <<camera_stop_mutex_, recycle_pc, recycle_cr, control_mutex_,
                   set_pc, lists_made, request_controls>>

\* lines 400-427: StopCamera takes camera_stop_mutex_, stops the device,
\* sets camera_started_ = false, unlocks and clears; it is at line 429
ControlsStopBegin ==
    /\ main_pc = "idle"
    /\ set_pc = "idle"
    /\ camera_stop_mutex_ = 0
    /\ camera_started_' = FALSE
    /\ main_pc' = "stop_controls"
    /\ UNCHANGED <<camera_stop_mutex_, recycle_pc, recycle_cr, control_mutex_,
                   controls_, set_pc, lists_made, request_controls>>

\* line 429: controls_.clear() without control_mutex_
ControlsStopEnd ==
    /\ main_pc = "stop_controls"
    /\ controls_' = 0
    /\ main_pc' = "idle"
    /\ UNCHANGED <<camera_started_, camera_stop_mutex_, recycle_pc, recycle_cr,
                   control_mutex_, set_pc, lists_made, request_controls>>

\* line 448: queueRequest, called with pointer a, takes camera_stop_mutex_
ControlsRecycleLock(a) ==
    /\ recycle_pc = "idle"
    /\ Len(request_controls) < MaxCompleted
    /\ camera_stop_mutex_ = 0
    /\ camera_stop_mutex_' = a
    /\ recycle_cr' = a
    /\ recycle_pc' = "locked"
    /\ UNCHANGED <<main_pc, camera_started_, control_mutex_, controls_, set_pc,
                   lists_made, request_controls>>

\* lines 449-478: it returns if the camera is not started, the pointer is
\* not known or there is no free request; else it has a request with its
\* buffers and is at the control lock
ControlsRecycleCheck(has_request) ==
    /\ recycle_pc = "locked"
    /\ IF camera_started_ /\ has_request
         THEN /\ recycle_pc' = "control_lock"
              /\ UNCHANGED <<camera_stop_mutex_, recycle_cr>>
         ELSE /\ recycle_pc' = "idle"
              /\ camera_stop_mutex_' = 0
              /\ recycle_cr' = 0
    /\ UNCHANGED <<main_pc, camera_started_, control_mutex_, controls_, set_pc,
                   lists_made, request_controls>>

\* line 481: queueRequest takes control_mutex_
ControlsRecycleControlLock ==
    /\ recycle_pc = "control_lock"
    /\ control_mutex_ = 0
    /\ control_mutex_' = recycle_cr
    /\ recycle_pc' = "move"
    /\ UNCHANGED <<main_pc, camera_started_, camera_stop_mutex_, recycle_cr,
                   controls_, set_pc, lists_made, request_controls>>

\* lines 482-487: request->controls() = std::move(controls_), unlock,
\* camera_->queueRequest, and the stop lock is released
ControlsRecycleMove ==
    /\ recycle_pc = "move"
    /\ request_controls' = Append(request_controls, controls_)
    /\ controls_' = 0
    /\ control_mutex_' = 0
    /\ camera_stop_mutex_' = 0
    /\ recycle_cr' = 0
    /\ recycle_pc' = "idle"
    /\ UNCHANGED <<main_pc, camera_started_, set_pc, lists_made>>

ControlsRecycleLockAny == \E a \in Addrs : ControlsRecycleLock(a)

ControlsRecycleCheckAny == \E has_request \in BOOLEAN : ControlsRecycleCheck(has_request)

NextControls ==
    \/ ControlsSetLock /\ UNCHANGED notControls
    \/ ControlsSetStore /\ UNCHANGED notControls
    \/ ControlsStartBegin /\ UNCHANGED notControls
    \/ ControlsStartEnd /\ UNCHANGED notControls
    \/ ControlsStopBegin /\ UNCHANGED notControls
    \/ ControlsStopEnd /\ UNCHANGED notControls
    \/ ControlsRecycleLockAny /\ UNCHANGED notControls
    \/ ControlsRecycleCheckAny /\ UNCHANGED notControls
    \/ ControlsRecycleControlLock /\ UNCHANGED notControls
    \/ ControlsRecycleMove /\ UNCHANGED notControls

SpecControls == Init /\ [][NextControls]_vars

(* ================== the preview thread and the abort ================== *)
(* previewThread's inner loop with preview_item_mutex_ and the condition   *)
(* variable, ShowPreview and the destructor's first lines.  The main       *)
(* thread calls ShowPreview and the destructor; after the destructor has   *)
(* begun it calls nothing else.  A thread blocked in                       *)
(* preview_cond_var_.wait is woken by notify_one or spuriously; a          *)
(* notify_one that finds no thread blocked is forgotten.                   *)
notAbort == <<mainVars, last_timestamp_, encoderVars, rateVars, make_status,
              mmapVars, lockVars>>

\* std::condition_variable::notify_one: a thread blocked in wait is woken
NotifyOne(pc) == IF pc = "blocked" THEN "woken" ELSE pc

\* part_000 lines 74-118: the event loop receives a frame, the destructor
\* has not begun
AbortPreviewWait(fd) ==
    /\ ~preview_abort_
    /\ preview_item_mutex_ # "main"
    /\ PreviewWait(fd)
    /\ UNCHANGED abortVars

\* lines 548-556: ShowPreview under preview_item_mutex_, with its notify_one
AbortShowPreview(f) ==
    /\ ~preview_abort_
    /\ preview_item_mutex_ = "none"
    /\ frames[f].app = "held"
    /\ preview_item_' = ShowPreviewSlot(preview_item_, f)
    /\ preview_frames_dropped_' =
          IF preview_item_ = 0 THEN preview_frames_dropped_
          ELSE preview_frames_dropped_ + 1
    /\ frames' = [frames EXCEPT ![f].app = "shown"]
    /\ preview_pc' = NotifyOne(preview_pc)
    /\ UNCHANGED <<preview_frames_displayed_, preview_completed_requests_, item,
                   rendering, preview_error, abortVars>>

\* the application drops its reference to a frame it has offered
AbortPreviewRelease(f) ==
    /\ ~preview_abort_
    /\ preview_item_mutex_ # "main"
    /\ PreviewRelease(f)
    /\ UNCHANGED abortVars

\* line 699: the preview thread locks preview_item_mutex_ (at the top of
\* the inner loop, or when wait returns and the loop comes round)
AbortThreadLock ==
    /\ preview_pc \in {"wait", "woken"}
    /\ preview_item_mutex_ = "none"
    /\ preview_item_mutex_' = "preview"
    /\ preview_pc' = "check"
    /\ UNCHANGED <<frames, preview_item_, preview_frames_dropped_,
                   preview_frames_displayed_, preview_completed_requests_, item,
                   rendering, preview_error, preview_abort_, preview_joined>>

\* lines 700-705: return on preview_abort_, else take the slot's item, else
\* go to the wait; the first two unlock
AbortThreadCheck ==
    /\ preview_pc = "check"
    /\ IF preview_abort_
         THEN /\ preview_pc' = "exited"
              /\ preview_item_mutex_' = "none"
              /\ UNCHANGED <<item, preview_item_>>
         ELSE IF preview_item_ # 0
           THEN /\ item' = preview_item_
                /\ preview_item_' = MovedFrom(preview_item_)
                /\ preview_pc' = "store"
                /\ preview_item_mutex_' = "none"
           ELSE /\ preview_pc' = "wait_cv"
                /\ UNCHANGED <<item, preview_item_, preview_item_mutex_>>
    /\ UNCHANGED <<frames, preview_frames_dropped_, preview_frames_displayed_,
                   preview_completed_requests_, rendering, preview_error,
                   preview_abort_, preview_joined>>

\* line 705: preview_cond_var_.wait(lock) unlocks and blocks in one step
AbortThreadBlock ==
    /\ preview_pc = "wait_cv"
    /\ preview_pc' = "blocked"
    /\ preview_item_mutex_' = "none"
    /\ UNCHANGED <<frames, preview_item_, preview_frames_dropped_,
                   preview_frames_displayed_, preview_completed_requests_, item,
                   rendering, preview_error, preview_abort_, preview_joined>>

\* line 705: wait may return without a notify
AbortThreadSpurious ==
    /\ preview_pc = "blocked"
    /\ preview_pc' = "woken"
    /\ UNCHANGED <<frames, preview_item_, preview_frames_dropped_,
                   preview_frames_displayed_, preview_completed_requests_, item,
                   rendering, preview_error, abortVars>>

\* line 25: the destructor locks preview_item_mutex_
DestructorLock ==
    /\ ~preview_abort_
    /\ preview_item_mutex_ = "none"
    /\ preview_item_mutex_' = "main"
    /\ UNCHANGED <<previewVars, preview_abort_, preview_joined>>

\* the destructor sets the flag and notifies nobody
DestructorAbortSilent ==
    /\ preview_item_mutex_ = "main"
    /\ preview_abort_' = TRUE
    /\ preview_pc' = preview_pc
    /\ preview_item_mutex_' = "none"
    /\ UNCHANGED <<frames, preview_item_, preview_frames_dropped_,
                   preview_frames_displayed_, preview_completed_requests_, item,
                   rendering, preview_error, preview_joined>>

\* lines 26-28: preview_abort_ = true, notify_one, unlock
DestructorAbort ==
    /\ preview_item_mutex_ = "main"
    /\ preview_abort_' = TRUE
    /\ preview_pc' = NotifyOne(preview_pc)
    /\ preview_item_mutex_' = "none"
    /\ UNCHANGED <<frames, preview_item_, preview_frames_dropped_,
                   preview_frames_displayed_, preview_completed_requests_, item,
                   rendering, preview_error, preview_joined>>

\* line 29: preview_thread_.join() returns when the thread has returned
DestructorJoin ==
    /\ preview_abort_
    /\ preview_pc = "exited"
    /\ ~preview_joined
    /\ preview_joined' = TRUE
    /\ UNCHANGED <<previewVars, preview_abort_, preview_item_mutex_>>

AbortPreviewWaitAny == \E fd \in Fds : AbortPreviewWait(fd)

AbortShowPreviewAny == \E f \in FrameIds : f <= Len(frames) /\ AbortShowPreview(f)

AbortPreviewReleaseAny == \E f \in FrameIds : f <= Len(frames) /\ AbortPreviewRelease(f)

\* the thread's steps after the inner loop and the renderer's callback
AbortThreadStore == PreviewThreadStore /\ UNCHANGED abortVars
AbortThreadShow == PreviewThreadShow /\ UNCHANGED abortVars
AbortDoneCallback == previewDoneCallback /\ UNCHANGED abortVars

NextAbort ==
    \/ AbortPreviewWaitAny /\ UNCHANGED notAbort
    \/ AbortShowPreviewAny /\ UNCHANGED notAbort
    \/ AbortPreviewReleaseAny /\ UNCHANGED notAbort
    \/ AbortThreadLock /\ UNCHANGED notAbort
    \/ AbortThreadCheck /\ UNCHANGED notAbort
    \/ AbortThreadBlock /\ UNCHANGED notAbort
    \/ AbortThreadSpurious /\ UNCHANGED notAbort
    \/ AbortThreadStore /\ UNCHANGED notAbort
    \/ AbortThreadShow /\ UNCHANGED notAbort
    \/ AbortDoneCallback /\ UNCHANGED notAbort
    \/ DestructorLock /\ UNCHANGED notAbort
    \/ DestructorAbort /\ UNCHANGED notAbort
    \/ DestructorJoin /\ UNCHANGED notAbort

\* every thread that can take a step takes one in the end, the renderer's
\* calls return; a spurious wake-up is never owed
FairAbort ==
    /\ Init /\ [][NextAbort]_vars
    /\ WF_vars(AbortThreadLock /\ UNCHANGED notAbort)
    /\ WF_vars(AbortThreadCheck /\ UNCHANGED notAbort)
    /\ WF_vars(AbortThreadBlock /\ UNCHANGED notAbort)
    /\ WF_vars(AbortThreadStore /\ UNCHANGED notAbort)
    /\ WF_vars(AbortThreadShow /\ UNCHANGED notAbort)
    /\ WF_vars(DestructorAbort /\ UNCHANGED notAbort)
    /\ WF_vars(DestructorJoin /\ UNCHANGED notAbort)

(* ------------------------------ properties ----------------------------- *)
\* the buffers bound into the i-th request queued at the device
QueuedBuffers(i) == BuffersOf(requests_[camera_queue[i]])
AllQueuedBuffers == UNION {QueuedBuffers(i) : i \in DOMAIN camera_queue}

\* C1: no buffer is bound into two requests that are queued at the device at
\* the same time.
C1_NoDoubleQueue ==
    \A i, j \in DOMAIN camera_queue :
        i # j => QueuedBuffers(i) \cap QueuedBuffers(j) = {}

\* C2: while the camera is stopped and neither StartCamera nor StopCamera is
\* running, no step submits a request to the device or pops a free request,
\* and no queueRequest is past its checks.
C2_NoSubmitWhileStopped ==
    [][(camera_state = "stopped" /\ main_pc = "idle") =>
          /\ camera_queue' = camera_queue
          /\ free_requests_' = free_requests_
          /\ \A k \in DOMAIN completed : completed[k].st # "submit"
          /\ \A k \in DOMAIN completed : completed'[k].st # "submit"]_vars

\* a CompletedRequest made before the last StopCamera has lost its last
\* reference after that StopCamera returned: its queueRequest has deleted it
\* and is about to take the stop mutex
C2_Witness ==
    /\ camera_state = "stopped"
    /\ main_pc = "idle"
    /\ \E k \in DOMAIN completed :
          /\ completed[k].old
          /\ completed[k].st = "freed"
          /\ completed[k].released = "stopped"

\* C3: the queueRequest of a CompletedRequest made in one session and released
\* after a later StartCamera does not find its address in the known set: it
\* leaves the known set and the free requests alone and does not go on to
\* submit.
C3_OrphanNoOp ==
    [][\A k \in DOMAIN completed :
          (/\ completed[k].st = "freed"
           /\ completed[k].released = "late"
           /\ completed'[k].st # "freed") =>
              /\ completed'[k].st # "submit"
              /\ known_completed_requests_' = known_completed_requests_
              /\ free_requests_' = free_requests_]_vars

\* C4: the buffers of a CompletedRequest that a consumer still references are
\* not bound into a request queued at the device.
C4_HeldNotQueued ==
    \A k \in DOMAIN completed :
        completed[k].st \in {"msgq", "held"} =>
            BuffersOf(completed[k].buffers) \cap AllQueuedBuffers = {}

\* C5: a queueRequest that is about to submit holds the stop mutex, the camera
\* is started and no StopCamera is running.
C5_SubmitUnderGuard ==
    \A k \in DOMAIN completed :
        completed[k].st = "submit" =>
            /\ camera_stop_mutex_ = k
            /\ camera_started_
            /\ camera_state = "running"
            /\ main_pc # "stop_wait"

\* a queueRequest is between its checks and its submission
C5_Witness ==
    \E k \in DOMAIN completed :
        completed[k].st = "submit" /\ camera_stop_mutex_ = k

C7_SequenceNoGaps ==
    /\ \A k \in DOMAIN completed :
          k > 1 => completed[k].sequence = completed[k - 1].sequence + 1
    /\ completed # <<>> => sequence_ = completed[Len(completed)].sequence + 1

\* completions of two sessions, with a StopCamera and its cancelled requests
\* between them
C7_Witness ==
    /\ Len(completed) >= 3
    /\ completed[1].old
    /\ ~completed[Len(completed)].old

\* C8: a second queueRequest on an address that has been recycled changes
\* neither the known set, nor the free requests, nor what is queued at the
\* device.
C8_SecondRecycleNoOp ==
    [][RecycleAgain =>
          UNCHANGED <<known_completed_requests_, free_requests_, camera_queue>>]_vars

\* C9: every buffer is bound in at most one request, and there only under
\* the stream it was allocated for.
C9_RoundTrip ==
    \A r1, r2 \in DOMAIN requests_ :
        \A s1 \in DOMAIN requests_[r1], s2 \in DOMAIN requests_[r2] :
            requests_[r1][s1] = requests_[r2][s2] =>
                /\ r1 = r2
                /\ s1 = s2
                /\ requests_[r1][s1] \in {frame_buffers_[s1][i] : i \in DOMAIN frame_buffers_[s1]}

\* a session of a single-stream configuration in which every buffer has
\* completed once and no more, with no StopCamera since the first completion
FirstRound ==
    /\ Len(configuration_) = 1
    /\ camera_state = "running"
    /\ main_pc = "idle"
    /\ cb_pc = "idle"
    /\ Len(completed) = Len(frame_buffers_[1])
    /\ \A k \in DOMAIN completed : ~completed[k].old

InFlight == IF cb_pc = "push" THEN 1 ELSE 0
InHand == Cardinality({k \in DOMAIN completed : completed[k].st = "submit"})
NotYetQueued == IF main_pc = "start_queue" THEN Len(requests_) + 1 - start_i ELSE 0

Offered == {f \in DOMAIN frames : frames[f].app # "held"}

\* C11: ShowPreview on an occupied slot leaves the slot as it is and counts
\* one dropped frame, on an empty slot it stores the item and counts
\* nothing; every offered frame is in the slot, with the preview thread,
\* displayed or dropped, and no frame goes to the renderer twice.
C11_DropIfBusy ==
    /\ [](/\ Cardinality(Offered) =
               preview_frames_dropped_ + preview_frames_displayed_
               + (IF preview_item_ # 0 THEN 1 ELSE 0)
               + (IF preview_pc # "wait" THEN 1 ELSE 0)
          /\ \A f \in DOMAIN frames : frames[f].shows <= 1
          /\ preview_frames_displayed_ =
               Cardinality({f \in DOMAIN frames : frames[f].shows = 1}))
    /\ [][\A f \in FrameIds : (f <= Len(frames) /\ ShowPreview(f)) =>
             IF preview_item_ # 0
               THEN /\ preview_item_' = preview_item_
                    /\ preview_frames_dropped_' = preview_frames_dropped_ + 1
               ELSE /\ preview_item_' = f
                    /\ preview_frames_dropped_' = preview_frames_dropped_]_vars

\* a burst of MaxFrames frames offered before the preview thread drained the
\* slot: the first was rendered, the others were dropped
C11_Witness ==
    /\ Len(frames) = MaxFrames
    /\ frames[1].shows = 1
    /\ preview_frames_displayed_ = 1
    /\ preview_frames_dropped_ = MaxFrames - 1

\* C12: a frame the renderer has been shown and has not signalled done is
\* still referenced by the pending set under its descriptor, so it has not
\* been recycled.
C12_PendingKeepsShown ==
    \A i \in DOMAIN rendering :
        /\ rendering[i].fd \in DOMAIN preview_completed_requests_
        /\ preview_completed_requests_[rendering[i].fd] = rendering[i].frame
        /\ ~Recycled(rendering[i].frame)

\* C13: the FIFO holds the frames passed to EncodeBuffer and not yet done,
\* in the order of the calls; the i-th done signal released the i-th frame;
\* a frame the encoder has not signalled done is not recycled; a done
\* signal on an empty FIFO raises an error and leaves the FIFO empty.
C13_EncoderFifo ==
    /\ [](/\ encode_done \o encode_buffer_queue_ =
               [i \in 1 .. (Len(encode_done) + Len(encode_buffer_queue_)) |-> i]
          /\ \A i \in DOMAIN encoder_input : ~EncodeRecycled(encoder_input[i])
          /\ \A f \in FrameIds : EncodeRecycled(f) => f \in Range(encode_done))
    /\ [][encode_buffer_queue_ = <<>> /\ (EncoderInputDone \/ EncoderSpuriousDone) =>
             /\ encode_error' = "no buffer available to return"
             /\ encode_buffer_queue_' = <<>>
             /\ encode_done' = encode_done]_vars

\* two frames are with the encoder, the first was signalled done and is
\* recycled, the others are still in the FIFO
C13_Witness ==
    /\ encode_done = <<1>>
    /\ EncodeRecycled(1)
    /\ Len(encoder_input) = MaxFrames - 1
    /\ encode_held = {}

\* C14: the message queue never holds a CompletedRequest made before a
\* StopCamera that has returned, so Wait after the stop cannot return one;
\* a callback past its cancelled check posts before camera_->stop() returns
\* and what it posted is cleared with the rest.
C14_NoStaleMessage ==
    \A i \in DOMAIN msg_queue_ : ~completed[msg_queue_[i]].old

\* StopCamera is inside camera_->stop() with unread messages in the queue
\* while a callback is past its cancelled check and has yet to post
C14_Witness ==
    /\ main_pc = "stop_wait"
    /\ cb_pc = "push"
    /\ msg_queue_ # <<>>

\* the device holds a request that the bound on completions keeps it from
\* completing
DeviceCapped == camera_queue # <<>> /\ Len(completed) >= MaxCompleted

\* C15: a CompletedRequest of the running session whose last reference has
\* been dropped is eventually queued to the device again, unless the camera
\* is stopped in between (or the behaviour ends at the bound on completions
\* with a request still at the device).
C15_RecycleLive ==
    \A k \in CRs :
        (k <= Len(completed) /\ completed[k].st = "freed" /\ ~completed[k].old
            /\ camera_started_)
        ~> (k <= Len(completed)
              /\ (\/ completed[k].result = "queued"
                  \/ completed[k].old
                  \/ ~camera_started_
                  \/ DeviceCapped))

\* the frame completed last is the first since StartCamera
FirstFrame == Len(prev_timestamp) = 1

\* the timestamp of the frame completed before the last
PreviousTimestamp == prev_timestamp[Len(prev_timestamp) - 1]

\* C16: the frame rate of the frame completed last is 0 if it is the first
\* frame since StartCamera or its timestamp is not greater than that of the
\* frame before; a rate that is not 0 is 1e9 over the timestamp difference.
C16_FramerateZero ==
    prev_timestamp # <<>> =>
        /\ (FirstFrame \/ timestamp <= PreviousTimestamp) => framerate.zero
        /\ ~framerate.zero =>
              /\ ~framerate.wrapped
              /\ framerate.value = timestamp - PreviousTimestamp

\* C17: the callback for a cancelled request makes no CompletedRequest and
\* leaves the sequence counter, the known set, the free requests, the last
\* timestamp, the message queue and the preview slot as they are.
C17_CancelledNoEffect ==
    [][RequestCompleteCancelled =>
          UNCHANGED <<completed, sequence_, known_completed_requests_,
                      free_requests_, last_timestamp_, msg_queue_, preview_item_,
                      cb_pc, cb_request>>]_vars

\* camera_->stop() has cancelled the requests the device held and their
\* callbacks have returned; frames completed before are known, numbered,
\* timestamped and waiting in the message queue
C17_Witness ==
    /\ camera_state = "stopping"
    /\ camera_queue = <<>>
    /\ cb_pc = "idle"
    /\ \A k \in DOMAIN completed : completed[k].req = 0
    /\ free_requests_ # <<>>
    /\ Len(free_requests_) < Len(requests_)
    /\ sequence_ > 0
    /\ last_timestamp_ > 0
    /\ known_completed_requests_ # {}
    /\ msg_queue_ # <<>>

\* C18: makeRequests throws if the streams do not all carry the same number
\* of buffers; with equal numbers it returns one request per buffer of the
\* primary stream, every request binds one buffer of every stream and
\* every buffer is bound by exactly one request.
C18_MatchingCounts ==
    make_status # "none" =>
        IF Cardinality(BufferCounts) > 1
          THEN make_status = "throw"
          ELSE /\ make_status = "return"
               /\ Len(requests_) = Len(frame_buffers_[configuration_[1]])
               /\ \A r \in DOMAIN requests_ :
                      /\ DOMAIN requests_[r] = DOMAIN frame_buffers_
                      /\ \A st \in DOMAIN requests_[r] :
                             \E i \in DOMAIN frame_buffers_[st] :
                                 requests_[r][st] = frame_buffers_[st][i]
               /\ \A st \in DOMAIN frame_buffers_ :
                      \A i \in DOMAIN frame_buffers_[st] :
                          Cardinality(RequestsBinding(frame_buffers_[st][i])) = 1

C20_MapFailureFatal ==
    setup_status # "none" =>
        /\ (\E c \in 1 .. Cardinality(RunEnds) : ~mmap_result[c]) => setup_status = "throw"
        /\ \A k \in DOMAIN Mmap(TheBuffer) : Mmap(TheBuffer)[k].memory # MAP_FAILED

\* C21: while StartCamera is between setting camera_started_ and the end of
\* the loop that queues the built requests, no queueRequest of another
\* thread gets to submit a request to the device.
C21_StartUnderGuard ==
    [][main_pc = "start_queue" => ~QueueRequestQueue]_vars

\* C22: at most one thread is inside an access to the known set (the insert
\* of requestComplete, the find/erase of queueRequest, the clear of
\* StopCamera).
C22_KnownExclusive == Cardinality(InsideKnown) <= 1

\* C23: once StopCamera has returned, and until the next StartCamera, the
\* known set, the free requests and the requests are empty; at any time
\* every pointer in free_requests_ is that of a request requests_ owns.
C23_EmptyAfterStop ==
    /\ (camera_state = "stopped" /\ main_pc = "idle") =>
          /\ known_completed_requests_ = {}
          /\ free_requests_ = <<>>
          /\ requests_ = <<>>
    /\ \A i \in DOMAIN free_requests_ : free_requests_[i] \in DOMAIN requests_

\* StopCamera is inside camera_->stop() while a callback is between its
\* insert into the known set and its push to the free requests, and both
\* already hold what earlier frames left
C23_Witness ==
    /\ main_pc = "stop_wait"
    /\ cb_pc = "push"
    /\ known_completed_requests_ # {}
    /\ free_requests_ # <<>>

\* queueRequest for k is at the lock with the camera started, its pointer in
\* the known set and no free request
NoRequestFor(k) ==
    /\ k <= Len(completed)
    /\ completed[k].st = "freed"
    /\ camera_started_
    /\ Known(completed[k])
    /\ free_requests_ = <<>>

\* C24: a queueRequest that finds the camera started, its pointer known and
\* no free request erases the pointer, queues nothing, leaves the free
\* requests empty and returns with the stop mutex released; its buffers are
\* in no request afterwards.
C24_DropWhenNoRequest ==
    [][\A k \in CRs :
          (NoRequestFor(k) /\ QueueRequestCheck(k)) =>
              /\ known_completed_requests_' =
                    known_completed_requests_ \ {completed[k].addr}
              /\ camera_queue' = camera_queue
              /\ requests_' = requests_
              /\ free_requests_' = <<>>
              /\ camera_stop_mutex_' = 0
              /\ completed'[k].st = "done"
              /\ completed'[k].result # "queued"
              /\ completed'[k].buffers = EmptyMap]_vars

\* a released CompletedRequest whose queueRequest will find no free request
C24_Witness ==
    /\ camera_stop_mutex_ = 0
    /\ \E k \in CRs : NoRequestFor(k)

\* C25: a thread that reads or writes controls_ holds control_mutex_: the
\* main thread in SetControls, StartCamera and StopCamera, the thread of
\* queueRequest at its move.
C25_ControlsUnderLock ==
    /\ (set_pc = "store" \/ main_pc \in {"start_controls", "stop_controls"}) =>
          control_mutex_ = Main
    /\ recycle_pc = "move" => control_mutex_ = recycle_cr

\* C26: once the destructor has set preview_abort_, the preview thread
\* returns and the join completes; from then on the item in the slot stays
\* there and is not rendered.
C26_AbortJoins ==
    /\ preview_abort_ ~> preview_joined
    /\ [][\A f \in FrameIds :
             (preview_abort_ /\ preview_item_ = f) =>
                 /\ preview_item_' = f
                 /\ frames'[f].shows = frames[f].shows]_vars

\* the join has returned with an item left in the slot that was never shown
C26_Witness ==
    /\ preview_joined
    /\ preview_item_ # 0
    /\ frames[preview_item_].shows = 0

\* no thread is inside StartCamera, StopCamera, requestComplete or
\* queueRequest
BetweenOperations ==
    /\ main_pc = "idle"
    /\ cb_pc = "idle"
    /\ camera_stop_mutex_ = 0
    /\ \A k \in DOMAIN completed : completed[k].st \notin {"freed", "submit"}

\* C27: in a session that StopCamera has not interrupted, between operations
\* the free requests are as many as the pointers in the known set.
C27_FreeMatchesKnown ==
    (/\ camera_started_
     /\ \A k \in DOMAIN completed : ~completed[k].old
     /\ BetweenOperations) =>
        Len(free_requests_) = Cardinality(known_completed_requests_)

====
